---- MODULE Spec2Model ----
(***************************************************************************)
(* Corkboard Pro: the real-time collaboration relay of server.js (socket   *)
(* rooms, presence fan-out, card mutation notifications of the REST        *)
(* handlers) together with the transport between the relay and its         *)
(* clients, and the browser side of one client: the CollaborationManager   *)
(* of collaboration.js and the board switching of app.js.                  *)
(***************************************************************************)
EXTENDS Integers, Sequences, FiniteSets, TLC

(***************************************************************************)
(* Bounds of the model.                                                    *)
(***************************************************************************)
\* client requests (socket messages and REST requests) issued in one behaviour
MaxSends == 3

\* socket ids the transport hands out (socket.id); an id is never reused
Conns == {"A", "B"}
\* board identifiers clients name in join-board / leave-board / payloads
Boards == {1, 2}
\* card ids uuidv4() can mint
CardIds == {"k1"}
\* pointer / card coordinates <<x, y>> used in payloads
Points == {<<10, 20>>}
\* request bodies of PUT /api/cards/:id: a text edit, a move to another board
Updates == {[title |-> "t"], [board_id |-> 2]}
\* the client-generated identity this.currentUser (not a socket id)
ClientUser == "user_1"

\* calls and transport events one browser client goes through in one behaviour
MaxSteps == 6

\* failed connection attempts in one behaviour
MaxFailures == 8

\* this.maxUndoSteps = 50
maxUndoSteps == 50

\* history operations in one behaviour of the short-history specification
MaxOps == 5

\* items of the sync queue the model keeps
MaxQueue == 3

\* maxRetries: 3 of a sync item
itemMaxRetries == 3

\* loadBoard calls the application makes in one behaviour
MaxLoads == 3

\* nested calls the engine's call stack holds
StackLimit == 3

\* this.maxRetries = 5, also handed to the socket as reconnectionAttempts
maxRetries == 5

VARIABLES
    status,   \* [Conns -> {"idle","open","closed"}]: life cycle of each socket
    rooms,    \* [RoomNames -> SUBSET Conns]: the adapter's room membership
    inq,      \* [Conns -> Seq(message)]: client -> relay, sent and not yet handled
    chan,     \* [Conns -> Seq(event)]: relay -> client, emitted and not yet received
    hi,       \* [Conns -> [Conns -> Nat]]: per receiver and sender, stamp of the last event received
    nseq,     \* [Conns -> Nat]: socket messages emitted by each client (send-order stamp)
    lastOp,   \* [Conns -> record]: the most recent room operation handled for a socket,
              \* and whether the socket was in that room before it
    gone,     \* [Conns -> SUBSET RoomNames]: rooms a socket occupied when it disconnected
    missed,   \* closed sockets whose former room has been broadcast to since they closed
    rows,     \* the cards table: set of <<id, board_id>>
    minted,   \* card ids uuidv4() has produced
    httpq,    \* REST requests waiting for their second database callback
    issued    \* number of requests issued so far, socket messages and REST requests

\* The browser side of one client.
VARIABLES
    link,         \* the client socket: "down" (connecting), "up", "off" (closed by the client)
    connected,    \* CollaborationManager.connected
    currentBoard, \* CollaborationManager.currentBoard, 0 for null
    sendBuffer,   \* packets emitted while the socket was not connected
    wire,         \* packets the client socket has written to the relay, in order
    activeBoard,  \* CorkboardApp.activeBoard.id, 0 before the first board is loaded
    loading,      \* boards whose switchBoard is waiting for boardManager.loadBoard
    wanted,       \* board of the last joinBoard call made while not connected, 0 if none
    dropped,      \* board the client was in when the transport dropped, 0 if none or withdrawn
    direct,       \* joinBoard/leaveBoard/disconnect/reconnect was called other than by the app
    lastCall,     \* [op, board]: the call or transport event of the latest step
    steps         \* calls and transport events so far

\* Card events arriving at one client that has joined its active board's room.
VARIABLES
    inbox,     \* card events the relay has written to this client, each with its origin
    handed,    \* events the manager has emitted to its remote-card-* listeners
    cards,     \* ids of activeBoard.cards, in order
    mutations  \* card mutations made so far, by this client and by its peers

\* Presence shown by one client for its peers.
VARIABLES
    typingIndicators, \* this.typingIndicators: key -> id of the indicator element and its timer
    indicatorEls,     \* indicator elements in the document: [el, userId, cardId, fieldType]
    cursors,          \* this.cursors: userId -> [element, timeout]
    cursorEls,        \* cursor elements in the document: element id -> [userId, x, y, display]
    timers,           \* pending setTimeout callbacks
    nextId,           \* ids handed out to elements and timers
    away,             \* peers whose transport dropped while one of their indicators was shown
    lastEvent,        \* the presence event or timer expiry of the latest step
    arrivals          \* presence events received so far

\* One call of resolveConflict.
VARIABLES
    localData,  \* first argument
    remoteData, \* second argument
    resolved    \* <<>> before the call, <<result>> after it

\* The connection retry bookkeeping of one client.
VARIABLES
    sock,              \* the transport: "connecting", "open", "stopped" (no attempt pending)
    backoffAttempts,   \* reconnection attempts the socket has scheduled since it last reset them
    connectionRetries, \* CollaborationManager.connectionRetries
    signalled,         \* 'connection-failed' was emitted since the last successful connect
    failures,          \* connection attempts that failed since the last successful connect
    closedBy,          \* why the socket stopped: "exhausted", "disconnect", "" while not stopped
    errors             \* failed connection attempts so far

\* The relay process, for messages whose payload is missing.
VARIABLES
    relayUp,    \* the node process of server.js is running
    handledBad  \* messages without a payload the relay has taken off a socket's stream

\* The undo history of the application.
VARIABLES
    undoStack,  \* CorkboardApp.undoStack: snapshots [boards, activeBoard], oldest first
    redoStack,  \* CorkboardApp.redoStack
    boardsVer,  \* the content of boardManager.boards, as the number of the edit that made it
    activeId,   \* CorkboardApp.activeBoard.id
    undone,     \* the state before the latest undo() or idle redo(), and what was called since
    histOps     \* history operations counted so far

\* The sync queue of the storage manager.
VARIABLES
    syncQueue,      \* StorageManager.syncQueue: items [op, retries, mark], mark "ok" for an
                    \* item in `successful`, "failed" for one in `failed`
    syncInProgress, \* StorageManager.syncInProgress
    pos,            \* index of the item the running pass visits next, 0 with no pass running
    asked,          \* operations the application has sent to the server
    tries,          \* per operation, requests made for it from the queue
    found,          \* items the latest pass found: those queued at its start or by the
                    \* application while it ran
    left,           \* length of the queue when the latest pass ended
    reqParity,      \* parity of the number of requests made from the queue
    completed       \* sync-complete has been emitted

\* The board cache of the board manager, for one board.
VARIABLES
    cacheEntry, \* this.cache.get(`board_full_${id}`): [held, ver, fresh]; fresh while the
                \* entry is younger than cacheTimeout
    serverVer,  \* the version of the board the server holds
    frames,     \* loadBoard calls on the call stack, 0 when none is running
    fetching,   \* api.getBoard requests not yet settled
    lastLoad,   \* what the latest loadBoard call of the application came to
    loads       \* loadBoard calls made by the application so far

\* The relay's side of one client's room membership.
VARIABLES
    feeding  \* presence events the relay wrote for this client may still arrive: it
             \* has joined a room and the relay has not caught up with a later leave

relayVars == <<status, rooms, inq, chan, hi, nseq, lastOp, gone, missed>>
dbVars == <<rows, minted, httpq, issued>>
clientVars == <<link, connected, currentBoard, sendBuffer, wire, activeBoard,
                loading, wanted, dropped, direct, lastCall, steps>>
mutationVars == <<inbox, handed, cards, mutations>>
presenceVars == <<typingIndicators, indicatorEls, cursors, cursorEls, timers,
                  nextId, away, lastEvent, arrivals>>
resolveVars == <<localData, remoteData, resolved>>
retryVars == <<sock, backoffAttempts, connectionRetries, signalled, failures,
               closedBy, errors>>
sessionVars == <<clientVars, mutationVars, presenceVars, resolveVars>>
faultVars == <<relayUp, handledBad>>
undoVars == <<undoStack, redoStack, boardsVer, activeId, undone, histOps>>
syncVars == <<syncQueue, syncInProgress, pos, asked, tries, found, left, reqParity,
              completed>>
cacheVars == <<cacheEntry, serverVer, frames, fetching, lastLoad, loads>>
roomVars == <<feeding>>
localVars == <<retryVars, faultVars, undoVars, syncVars, cacheVars, roomVars>>
browserVars == <<sessionVars, localVars>>

vars == <<relayVars, dbVars, browserVars>>

(***************************************************************************)
(* Rooms and the socket.io primitives the handlers call.                   *)
(***************************************************************************)
\* `board-${boardId}`
Room(boardId) == <<"board", boardId>>

RoomNames == {Room(b) : b \in Boards}

NoRoom == <<"board", 0>>

\* a join that takes a socket already in the room out of it
SocketJoinToggle(rs, c, room) ==
    [rs EXCEPT ![room] = IF c \in @ THEN @ \ {c} ELSE @ \cup {c}]

\* socket.join(room): adds the socket to the room, leaves its other rooms alone
SocketJoin(rs, c, room) == [rs EXCEPT ![room] = @ \cup {c}]

\* a leave that forgets the socket in the room
SocketLeaveKept(rs, c, room) == rs

\* socket.leave(room)
SocketLeave(rs, c, room) == [rs EXCEPT ![room] = @ \ {c}]

\* socket.to(room): every socket of the room except the calling socket
SocketTo(rs, c, room) == rs[room] \ {c}

\* io.to(room): every socket of the room
IoTo(rs, room) == rs[room]

\* a write that jumps the queue of packets already written
EmitToFront(ch, targets, ev) ==
    [p \in Conns |-> IF p \in targets THEN <<ev>> \o ch[p] ELSE ch[p]]

\* .emit(name, data) on a set of target sockets: one packet appended to each
\* target's outbound stream
EmitTo(ch, targets, ev) ==
    [p \in Conns |-> IF p \in targets THEN Append(ch[p], ev) ELSE ch[p]]

\* closed sockets that were in `room` when they disconnected
FormerMembers(room) == {c \in Conns : status[c] = "closed" /\ room \in gone[c]}

\* an event as written to a socket; from, room and seq record the origin, the
\* target room and the send stamp of the message that caused it
Event(name, data, from, room, seq) ==
    [name |-> name, data |-> data, from |-> from, room |-> room, seq |-> seq]

(***************************************************************************)
(* Messages a client can put on its socket.                                *)
(***************************************************************************)
JoinMsgs == {[name |-> "join-board", data |-> [boardId |-> b]] : b \in Boards}

LeaveMsgs == {[name |-> "leave-board", data |-> [boardId |-> b]] : b \in Boards}

\* broadcastCursorPosition: {x, y, boardId, userId, timestamp}
CursorMsgs ==
    {[name |-> "cursor-update",
      data |-> [x |-> pt[1], y |-> pt[2], boardId |-> b, userId |-> ClientUser]] :
        pt \in Points, b \in Boards}

\* broadcastCardPosition: {cardId, x, y, boardId, userId}
PositionMsgs ==
    {[name |-> "card-position-update",
      data |-> [cardId |-> k, x |-> 30, y |-> 40, boardId |-> b, userId |-> ClientUser]] :
        k \in CardIds, b \in Boards}

\* startTyping / stopTyping: {cardId, fieldType, boardId, userId}
TypingMsgs ==
    {[name |-> n,
      data |-> [cardId |-> k, fieldType |-> "title", boardId |-> b, userId |-> ClientUser]] :
        n \in {"typing-start", "typing-stop"}, k \in CardIds, b \in Boards}

Messages == JoinMsgs \cup LeaveMsgs \cup CursorMsgs \cup PositionMsgs \cup TypingMsgs

\* new Map()
EmptyMap == [k \in {} |-> 0]

\* map.set(k, v)
Put(m, k, v) == [x \in DOMAIN m \cup {k} |-> IF x = k THEN v ELSE m[x]]

\* map.delete(k)
Remove(m, k) == [x \in DOMAIN m \ {k} |-> m[x]]

RelayStart ==
    /\ status = [c \in Conns |-> "idle"]
    /\ rooms = [r \in RoomNames |-> {}]
    /\ inq = [c \in Conns |-> <<>>]
    /\ chan = [c \in Conns |-> <<>>]
    /\ hi = [c \in Conns |-> [s \in Conns |-> 0]]
    /\ nseq = [c \in Conns |-> 0]
    /\ lastOp = [c \in Conns |-> [op |-> "none", room |-> NoRoom, member |-> FALSE]]
    /\ gone = [c \in Conns |-> {}]
    /\ missed = {}
    /\ rows = {}
    /\ minted = {}
    /\ httpq = {}
    /\ issued = 0

\* new CollaborationManager(): the socket starts connecting, no board yet
ClientStart ==
    /\ link = "down"
    /\ connected = FALSE
    /\ currentBoard = 0
    /\ sendBuffer = <<>>
    /\ wire = <<>>
    /\ activeBoard = 0
    /\ loading = {}
    /\ wanted = 0
    /\ dropped = 0
    /\ direct = FALSE
    /\ lastCall = [op |-> "new", board |-> 0]
    /\ steps = 0

\* no card event yet; the board shows no card
MutationStart ==
    /\ inbox = <<>>
    /\ handed = <<>>
    /\ cards = <<>>
    /\ mutations = 0

\* this.cursors = new Map(); this.typingIndicators = new Map()
PresenceStart ==
    /\ typingIndicators = EmptyMap
    /\ indicatorEls = {}
    /\ cursors = EmptyMap
    /\ cursorEls = EmptyMap
    /\ timers = {}
    /\ nextId = 1
    /\ away = {}
    /\ lastEvent = [op |-> "none", userId |-> "", cardId |-> "", fieldType |-> "", x |-> 0, y |-> 0]
    /\ arrivals = 0

\* resolveConflict has not been called
ResolveStart ==
    /\ localData = [id |-> "k1", title |-> "mine", updated_at |-> <<>>, modified |-> <<>>]
    /\ remoteData = [id |-> "k1", title |-> "theirs", updated_at |-> <<>>, modified |-> <<>>]
    /\ resolved = <<>>

\* constructor: connectionRetries = 0, and initializeConnection has called io(...)
RetryStart ==
    /\ sock = "connecting"
    /\ backoffAttempts = 0
    /\ connectionRetries = 0
    /\ signalled = FALSE
    /\ failures = 0
    /\ closedBy = ""
    /\ errors = 0

\* server.listen: the process runs
FaultStart ==
    /\ relayUp = TRUE
    /\ handledBad = 0

\* nothing recorded about an earlier undo()
NoneUndone == [phase |-> "none", boards |-> 0, activeBoard |-> 0, undoStack |-> <<>>, redoStack |-> <<>>]

\* this.undoStack = []; this.redoStack = []; init has loaded the first board
UndoStart ==
    /\ undoStack = <<>>
    /\ redoStack = <<>>
    /\ boardsVer = 0
    /\ activeId = 1
    /\ undone = NoneUndone
    /\ histOps = 0

\* this.syncQueue = []; this.syncInProgress = false
SyncStart ==
    /\ syncQueue = <<>>
    /\ syncInProgress = FALSE
    /\ pos = 0
    /\ asked = {}
    /\ tries = [o \in {"o1", "o2"} |-> 0]
    /\ found = 0
    /\ left = 0
    /\ reqParity = 0
    /\ completed = FALSE

\* this.cache = new Map()
CacheStart ==
    /\ cacheEntry = [held |-> FALSE, ver |-> 0, fresh |-> FALSE]
    /\ serverVer = 0
    /\ frames = 0
    /\ fetching = 0
    /\ lastLoad = [result |-> "none", fetched |-> FALSE, overflowed |-> FALSE]
    /\ loads = 0

\* the client has joined no room
RoomStart == feeding = FALSE

LocalStart ==
    /\ RetryStart /\ FaultStart /\ UndoStart /\ SyncStart /\ CacheStart /\ RoomStart

Init ==
    /\ RelayStart /\ ClientStart /\ MutationStart /\ PresenceStart /\ ResolveStart
    /\ LocalStart

(***************************************************************************)
(* Transport.                                                              *)
(***************************************************************************)
\* io.on('connection'): the transport assigns a fresh socket id
Connect(c) ==
    /\ status[c] = "idle"
    /\ status' = [status EXCEPT ![c] = "open"]
    /\ UNCHANGED <<rooms, inq, chan, hi, nseq, lastOp, gone, missed>>
    /\ UNCHANGED dbVars
    /\ UNCHANGED browserVars

\* socket.emit(name, data) on the client: the message joins the ordered
\* inbound stream of the connection
ClientSend(c, m) ==
    /\ status[c] = "open"
    /\ issued < MaxSends
    /\ issued' = issued + 1
    /\ nseq' = [nseq EXCEPT ![c] = @ + 1]
    /\ inq' = [inq EXCEPT ![c] = Append(@, [name |-> m.name, data |-> m.data, seq |-> nseq[c] + 1])]
    /\ UNCHANGED <<status, rooms, chan, hi, lastOp, gone, missed>>
    /\ UNCHANGED <<rows, minted, httpq>>
    /\ UNCHANGED browserVars

\* the client reads the next packet of its socket
Deliver(c) ==
    /\ status[c] = "open"
    /\ chan[c] # <<>>
    /\ chan' = [chan EXCEPT ![c] = Tail(@)]
    /\ hi' = [hi EXCEPT ![c][Head(chan[c]).from] =
                 IF Head(chan[c]).seq > 0 THEN Head(chan[c]).seq ELSE @]
    /\ UNCHANGED <<status, rooms, inq, nseq, lastOp, gone, missed>>
    /\ UNCHANGED dbVars
    /\ UNCHANGED browserVars

\* the head of c's inbound stream is a message named `name`
Next1(c, name) ==
    /\ status[c] = "open"
    /\ inq[c] # <<>>
    /\ Head(inq[c]).name = name

\* the relay writes `ev` to `targets`
Emit(targets, ev) ==
    /\ chan' = EmitTo(chan, targets, ev)
    /\ missed' = missed \cup FormerMembers(ev.room)

\* a socket handler consumes the head of c's inbound stream and writes `ev`
\* to `targets`
Broadcast(c, targets, ev) ==
    /\ Emit(targets, ev)
    /\ inq' = [inq EXCEPT ![c] = Tail(@)]
    /\ UNCHANGED <<status, hi, nseq, gone>>
    /\ UNCHANGED dbVars
    /\ UNCHANGED browserVars

(***************************************************************************)
(* The socket handlers of io.on('connection').                             *)
(***************************************************************************)
\* join-board announced with io.to(...) instead of socket.to(...)
HandleJoinBoardToAll(c) ==
    /\ Next1(c, "join-board")
    /\ LET m == Head(inq[c])
           room == Room(m.data.boardId)
       IN /\ rooms' = SocketJoin(rooms, c, room)
          /\ lastOp' = [lastOp EXCEPT ![c] = [op |-> "join", room |-> room, member |-> c \in rooms[room]]]
          /\ Broadcast(c, IoTo(rooms', room),
                       Event("user-joined", [userId |-> c], c, room, m.seq))

HandleJoinBoard(c) ==
    /\ Next1(c, "join-board")
    /\ LET m == Head(inq[c])
           room == Room(m.data.boardId)
       IN /\ rooms' = SocketJoin(rooms, c, room)
          /\ lastOp' = [lastOp EXCEPT ![c] = [op |-> "join", room |-> room, member |-> c \in rooms[room]]]
          /\ Broadcast(c, SocketTo(rooms', c, room),
                       Event("user-joined", [userId |-> c], c, room, m.seq))

HandleLeaveBoard(c) ==
    /\ Next1(c, "leave-board")
    /\ LET m == Head(inq[c])
           room == Room(m.data.boardId)
       IN /\ rooms' = SocketLeave(rooms, c, room)
          /\ lastOp' = [lastOp EXCEPT ![c] = [op |-> "leave", room |-> room, member |-> c \in rooms[room]]]
          /\ Broadcast(c, SocketTo(rooms', c, room),
                       Event("user-left", [userId |-> c], c, room, m.seq))

HandleCardPositionUpdate(c) ==
    /\ Next1(c, "card-position-update")
    /\ LET m == Head(inq[c])
           room == Room(m.data.boardId)
       IN /\ Broadcast(c, SocketTo(rooms, c, room),
                       Event("card-position-update", m.data, c, room, m.seq))
          /\ UNCHANGED <<rooms, lastOp>>

\* a relay that forwards the payload as the client wrote it
TaggedAsSent(data, c) == data

\* {...data, userId: socket.id}
Tagged(data, c) == [data EXCEPT !.userId = c]

HandleCursorUpdate(c) ==
    /\ Next1(c, "cursor-update")
    /\ LET m == Head(inq[c])
           room == Room(m.data.boardId)
       IN /\ Broadcast(c, SocketTo(rooms, c, room),
                       Event("cursor-update", Tagged(m.data, c), c, room, m.seq))
          /\ UNCHANGED <<rooms, lastOp>>

HandleTypingStart(c) ==
    /\ Next1(c, "typing-start")
    /\ LET m == Head(inq[c])
           room == Room(m.data.boardId)
       IN /\ Broadcast(c, SocketTo(rooms, c, room),
                       Event("typing-start", Tagged(m.data, c), c, room, m.seq))
          /\ UNCHANGED <<rooms, lastOp>>

HandleTypingStop(c) ==
    /\ Next1(c, "typing-stop")
    /\ LET m == Head(inq[c])
           room == Room(m.data.boardId)
       IN /\ Broadcast(c, SocketTo(rooms, c, room),
                       Event("typing-stop", Tagged(m.data, c), c, room, m.seq))
          /\ UNCHANGED <<rooms, lastOp>>

\* the rooms a socket is in
RoomsOf(rs, c) == {r \in RoomNames : c \in rs[r]}

\* a close that leaves the socket in its rooms
LeaveAllKept(rs, c) == rs

\* the adapter drops a closing socket from every room
LeaveAll(rs, c) == [r \in RoomNames |-> rs[r] \ {c}]

\* transport close: socket.io empties the socket's rooms and discards the
\* packets not yet exchanged, then runs socket.on('disconnect'), which only logs
Disconnect(c) ==
    /\ status[c] = "open"
    /\ status' = [status EXCEPT ![c] = "closed"]
    /\ gone' = [gone EXCEPT ![c] = RoomsOf(rooms, c)]
    /\ rooms' = LeaveAll(rooms, c)
    /\ inq' = [inq EXCEPT ![c] = <<>>]
    /\ chan' = [chan EXCEPT ![c] = <<>>]
    /\ UNCHANGED <<hi, nseq, lastOp, missed>>
    /\ UNCHANGED dbVars
    /\ UNCHANGED browserVars

(***************************************************************************)
(* The REST handlers that notify a board's room.  `o` is the socket of the *)
(* client that issued the request.                                         *)
(***************************************************************************)
\* the row of card `id`, as db.get('SELECT board_id FROM cards WHERE id = ?')
\* finds it: the board ids stored under `id` (none or one)
BoardsOfCard(id) == {r[2] : r \in {q \in rows : q[1] = id}}

\* POST /api/cards: INSERT, then from its callback the card-created emit
PostCard(o, b, ok) ==
    /\ issued < MaxSends
    /\ issued' = issued + 1
    /\ \E id \in CardIds \ minted :
          /\ minted' = minted \cup {id}
          /\ IF ok
             THEN /\ rows' = rows \cup {<<id, b>>}
                  /\ Emit(IoTo(rooms, Room(b)),
                          Event("card-created", [id |-> id, board_id |-> b], o, Room(b), 0))
             ELSE UNCHANGED <<rows, chan, missed>>
    /\ UNCHANGED <<status, rooms, inq, hi, nseq, lastOp, gone, httpq>>
    /\ UNCHANGED browserVars

\* UPDATE cards SET ... WHERE id = ?
UpdateRows(id, updates) ==
    IF "board_id" \in DOMAIN updates
    THEN {IF q[1] = id THEN <<id, updates.board_id>> ELSE q : q \in rows}
    ELSE rows

\* PUT /api/cards/:id: UPDATE, then from its callback the SELECT of the board
\* is queued and the response is sent
PutCard(o, id, updates, ok) ==
    /\ issued < MaxSends
    /\ issued' = issued + 1
    /\ IF ok
       THEN /\ rows' = UpdateRows(id, updates)
            /\ httpq' = httpq \cup {[op |-> "put", id |-> id, updates |-> updates, from |-> o]}
       ELSE UNCHANGED <<rows, httpq>>
    /\ UNCHANGED <<minted>>
    /\ UNCHANGED relayVars
    /\ UNCHANGED browserVars

\* the callback of the SELECT of PUT /api/cards/:id: { id: cardId, ...updates }
\* goes to the room of the board the card is in now
PutSelected(req) ==
    /\ req \in httpq
    /\ req.op = "put"
    /\ httpq' = httpq \ {req}
    /\ IF BoardsOfCard(req.id) # {}
       THEN \E b \in BoardsOfCard(req.id) :
               Emit(IoTo(rooms, Room(b)),
                    Event("card-updated", req.updates @@ [id |-> req.id], req.from, Room(b), 0))
       ELSE UNCHANGED <<chan, missed>>
    /\ UNCHANGED <<status, rooms, inq, hi, nseq, lastOp, gone, rows, minted, issued>>
    /\ UNCHANGED browserVars

\* DELETE /api/cards/:id: the SELECT of the board, whose callback queues the
\* DELETE
DeleteCard(o, id, ok) ==
    /\ issued < MaxSends
    /\ issued' = issued + 1
    /\ IF ok
       THEN httpq' = httpq \cup {[op |-> "delete", id |-> id, card |-> BoardsOfCard(id), from |-> o]}
       ELSE UNCHANGED httpq
    /\ UNCHANGED <<rows, minted>>
    /\ UNCHANGED relayVars
    /\ UNCHANGED browserVars

\* the callback of the DELETE: card-deleted goes to the room of the board the
\* SELECT found
DeleteRun(req, ok) ==
    /\ req \in httpq
    /\ req.op = "delete"
    /\ httpq' = httpq \ {req}
    /\ IF ok
       THEN /\ rows' = {q \in rows : q[1] # req.id}
            /\ IF req.card # {}
               THEN \E b \in req.card :
                       Emit(IoTo(rooms, Room(b)),
                            Event("card-deleted", [id |-> req.id], req.from, Room(b), 0))
               ELSE UNCHANGED <<chan, missed>>
       ELSE UNCHANGED <<rows, chan, missed>>
    /\ UNCHANGED <<status, rooms, inq, hi, nseq, lastOp, gone, minted, issued>>
    /\ UNCHANGED browserVars

Next ==
    \/ \E c \in Conns : Connect(c)
    \/ \E c \in Conns, m \in Messages : ClientSend(c, m)
    \/ \E c \in Conns : Deliver(c)
    \/ \E c \in Conns : HandleJoinBoard(c)
    \/ \E c \in Conns : HandleLeaveBoard(c)
    \/ \E c \in Conns : HandleCardPositionUpdate(c)
    \/ \E c \in Conns : HandleCursorUpdate(c)
    \/ \E c \in Conns : HandleTypingStart(c)
    \/ \E c \in Conns : HandleTypingStop(c)
    \/ \E c \in Conns : Disconnect(c)
    \/ \E o \in Conns, b \in Boards, ok \in BOOLEAN : PostCard(o, b, ok)
    \/ \E o \in Conns, id \in CardIds, u \in Updates, ok \in BOOLEAN : PutCard(o, id, u, ok)
    \/ \E req \in httpq : PutSelected(req)
    \/ \E o \in Conns, id \in CardIds, ok \in BOOLEAN : DeleteCard(o, id, ok)
    \/ \E req \in httpq, ok \in BOOLEAN : DeleteRun(req, ok)

(***************************************************************************)
(* Properties of the relay.                                                *)
(***************************************************************************)
PresenceNames == {"cursor-update", "typing-start", "typing-stop", "card-position-update"}

\* this step wrote one more packet to p's stream
Grew(p) == Len(chan'[p]) = Len(chan[p]) + 1

\* the packet this step wrote to p's stream
Newest(p) == chan'[p][Len(chan'[p])]

\* this step is the relay handling the message named `name` at the head of
\* c's inbound stream
Handles(c, name) ==
    /\ Next1(c, name)
    /\ status'[c] = "open"
    /\ inq'[c] = Tail(inq[c])

\* this step wrote exactly the packet `name` carrying user id `uid` to p
GotOne(p, name, uid) ==
    /\ Grew(p)
    /\ SubSeq(chan'[p], 1, Len(chan[p])) = chan[p]
    /\ Newest(p).name = name
    /\ Newest(p).data.userId = uid

\* the events in p's stream that socket `s` sent to `room`
FromTo(p, s, room) ==
    SelectSeq(chan[p], LAMBDA e : e.from = s /\ e.room = room /\ e.seq > 0)

\* C1: every event written to a room reaches every other member of the room
\* and is never written to the connection of the client that originated it.
C1_ExcludesOrigin ==
    [][\A p \in Conns :
          Grew(p) =>
             /\ Newest(p).from # p
             /\ \A q \in rooms'[Newest(p).room] \ {Newest(p).from} :
                   /\ Grew(q)
                   /\ Newest(q) = Newest(p)]_vars

\* C2: a connection is a member of at most one room.
C2_AtMostOneRoom ==
    \A c \in Conns : Cardinality(RoomsOf(rooms, c)) <= 1

\* C3: a live connection is a member of room r exactly when its most recent
\* room operation was join(c, r).
C3_MemberIffLastJoin ==
    \A c \in Conns :
       status[c] = "open" =>
          \A r \in RoomNames :
             (c \in rooms[r]) <=> (lastOp[c].op = "join" /\ lastOp[c].room = r)

\* C4: a disconnected connection is a member of no room and nothing is
\* written to it, whatever is broadcast after it closed.
C4_ClosedGetsNothing ==
    \A c \in Conns :
       status[c] = "closed" => RoomsOf(rooms, c) = {} /\ chan[c] = <<>>

\* a room the closed socket occupied has been broadcast to since it closed
C4_Witness ==
    \E c \in missed : status[c] = "closed" /\ gone[c] # {} /\ chan[c] = <<>>

\* C5: when a member of room r is closed by the transport, the remaining
\* members of r are sent user-left carrying its id.
C5_DisconnectAnnounced ==
    [][\A c \in Conns :
          (status[c] = "open" /\ status'[c] = "closed") =>
             \A r \in RoomsOf(rooms, c) :
                \A p \in rooms[r] \ {c} : GotOne(p, "user-left", c)]_vars

\* C6: a presence event is written only to members of a room its sender is
\* in; a connection outside room r cannot make the relay write to r's members.
C6_OnlyOwnRoom ==
    [][\A p \in Conns :
          (Grew(p) /\ Newest(p).name \in PresenceNames) =>
             Newest(p).from \in rooms[Newest(p).room]]_vars

\* C7: when A and B share a room and the relay handles A's cursor-update
\* {x, y} for that room, B is written exactly one cursor-update with the same
\* x and y and userId = A's socket id, and A is written nothing.
C7_CursorRelayed ==
    [][\A a \in Conns :
          Handles(a, "cursor-update") =>
             LET m == Head(inq[a])
                 r == Room(m.data.boardId)
             IN a \in rooms[r] =>
                  /\ \A b \in rooms[r] \ {a} :
                        /\ GotOne(b, "cursor-update", a)
                        /\ Newest(b).data.x = m.data.x
                        /\ Newest(b).data.y = m.data.y
                  /\ chan'[a] = chan[a]]_vars

\* B holds the cursor-update of A's latest message, sent after A's join of the
\* room they share was handled, tagged with A's socket id; A holds none
C7_Witness ==
    \E a \in Conns, r \in RoomNames :
       /\ a \in rooms[r]
       /\ inq[a] = <<>>
       /\ lastOp[a].op = "join" /\ lastOp[a].room = r
       /\ \E b \in rooms[r] \ {a} :
             \E i \in 1..Len(chan[b]) :
                /\ chan[b][i].name = "cursor-update"
                /\ chan[b][i].from = a
                /\ chan[b][i].seq = nseq[a]
                /\ chan[b][i].room = r
                /\ chan[b][i].data.userId = a
                /\ chan[b][i].data.x = 10
                /\ chan[b][i].data.y = 20
       /\ \A i \in 1..Len(chan[a]) : chan[a][i].name # "cursor-update"

\* C8: handling join-board(r) from c puts c in r and writes user-joined
\* carrying c's id to every other member of r, and nothing to c.
C8_JoinAnnounced ==
    [][\A c \in Conns :
          Handles(c, "join-board") =>
             LET r == Room(Head(inq[c]).data.boardId)
             IN /\ c \in rooms'[r]
                /\ \A p \in rooms'[r] \ {c} : GotOne(p, "user-joined", c)
                /\ chan'[c] = chan[c]]_vars

\* a member of the room c joined holds the user-joined of c; c holds none
C8_Witness ==
    \E c \in Conns, r \in RoomNames :
       /\ c \in rooms[r]
       /\ lastOp[c].op = "join" /\ lastOp[c].room = r
       /\ \E p \in rooms[r] \ {c} :
             \E i \in 1..Len(chan[p]) :
                /\ chan[p][i].name = "user-joined"
                /\ chan[p][i].data.userId = c
                /\ chan[p][i].room = r
       /\ \A i \in 1..Len(chan[c]) : chan[c][i].name # "user-joined"

\* C9: handling leave-board(r) from a member c of r writes user-left
\* carrying c's id to every remaining member of r, takes c out of r and
\* writes nothing to c.
C9_LeaveAnnounced ==
    [][\A c \in Conns :
          Handles(c, "leave-board") =>
             LET r == Room(Head(inq[c]).data.boardId)
             IN c \in rooms[r] =>
                  /\ c \notin rooms'[r]
                  /\ \A p \in rooms[r] \ {c} : GotOne(p, "user-left", c)
                  /\ chan'[c] = chan[c]]_vars

\* c has left a room it was in, a remaining member holds its user-left
C9_Witness ==
    \E c \in Conns, r \in RoomNames :
       /\ lastOp[c] = [op |-> "leave", room |-> r, member |-> TRUE]
       /\ c \notin rooms[r]
       /\ \E p \in rooms[r] :
             \E i \in 1..Len(chan[p]) :
                /\ chan[p][i].name = "user-left"
                /\ chan[p][i].data.userId = c
                /\ chan[p][i].room = r
       /\ \A i \in 1..Len(chan[c]) : chan[c][i].name # "user-left"

\* the events in p's stream that a socket sent to one room are in send order
\* and were all sent after the last event p received from that socket
InSendOrder(p) ==
    \A i \in 1..Len(chan[p]) :
       LET e == chan[p][i]
       IN e.seq > 0 =>
            /\ e.seq > hi[p][e.from]
            /\ \A j \in (i + 1)..Len(chan[p]) :
                  (chan[p][j].from = e.from /\ chan[p][j].room = e.room /\ chan[p][j].seq > 0)
                     => e.seq < chan[p][j].seq

\* a handled message is fanned out to every peer of its room, behind what
\* that peer's stream already holds
FannedOut(s) ==
    (inq[s] # <<>> /\ inq'[s] = Tail(inq[s]) /\ status'[s] = "open") =>
       \A p \in rooms'[Room(Head(inq[s]).data.boardId)] \ {s} :
          /\ Grew(p)
          /\ SubSeq(chan'[p], 1, Len(chan[p])) = chan[p]
          /\ Newest(p).seq = Head(inq[s]).seq
          /\ Newest(p).from = s

Spec == Init /\ [][Next]_vars

(***************************************************************************)
(* The browser side: the CollaborationManager of collaboration.js, the     *)
(* client socket under it, and the board switching of app.js.              *)
(***************************************************************************)
JoinPacket(b) == [name |-> "join-board", boardId |-> b]

LeavePacket(b) == [name |-> "leave-board", boardId |-> b]

CursorPacket(b) == [name |-> "cursor-update", boardId |-> b]

PositionPacket(b) == [name |-> "card-position-update", boardId |-> b]

\* socket.emit on the client socket: written to the relay when the socket is
\* connected, kept in its send buffer otherwise
WireAfter(lk, w, ms) == IF lk = "up" THEN w \o ms ELSE w

BufferAfter(lk, sb, ms) == IF lk = "up" THEN sb ELSE sb \o ms

\* a joinBoard that never leaves the board it was in
JoinOnly(cur, b) == <<JoinPacket(b)>>

\* what joinBoard(b) emits once it is past its connection guard, cur being
\* this.currentBoard: leaveBoard() first when cur is another board
JoinBoardPackets(cur, b) ==
    (IF cur # 0 /\ cur # b THEN <<LeavePacket(cur)>> ELSE <<>>) \o <<JoinPacket(b)>>

\* what leaveBoard() emits
LeaveBoardPackets(cur) == IF cur # 0 THEN <<LeavePacket(cur)>> ELSE <<>>

\* a connect handler that forgets the board
RejoinNone(cur) == <<>>

\* what the connect handler emits: joinBoard(this.currentBoard) if there is one
RejoinPackets(cur) == IF cur # 0 THEN JoinBoardPackets(cur, cur) ELSE <<>>

\* one more call or transport event, named in lastCall
Step(op, b) ==
    /\ steps < MaxSteps
    /\ steps' = steps + 1
    /\ lastCall' = [op |-> op, board |-> b]

\* the effect of joinBoard(b) on the manager and its socket
DoJoinBoard(b) ==
    IF connected
    THEN /\ currentBoard' = b
         /\ wire' = WireAfter(link, wire, JoinBoardPackets(currentBoard, b))
         /\ sendBuffer' = BufferAfter(link, sendBuffer, JoinBoardPackets(currentBoard, b))
         /\ wanted' = 0
    ELSE /\ wanted' = b
         /\ UNCHANGED <<currentBoard, wire, sendBuffer>>

\* the effect of leaveBoard() on the manager and its socket
DoLeaveBoard ==
    /\ currentBoard' = 0
    /\ wire' = WireAfter(link, wire, LeaveBoardPackets(currentBoard))
    /\ sendBuffer' = BufferAfter(link, sendBuffer, LeaveBoardPackets(currentBoard))
    /\ wanted' = 0
    /\ dropped' = 0

\* collaboration.joinBoard(b) called from outside the app's own flow
JoinBoard(b) ==
    /\ Step("joinBoard", b)
    /\ DoJoinBoard(b)
    /\ direct' = TRUE
    /\ UNCHANGED <<link, connected, activeBoard, loading, dropped>>
    /\ UNCHANGED <<relayVars, dbVars, mutationVars, presenceVars, resolveVars, localVars>>

\* collaboration.leaveBoard() called from outside the app's own flow
LeaveBoard ==
    /\ Step("leaveBoard", currentBoard)
    /\ DoLeaveBoard
    /\ direct' = TRUE
    /\ UNCHANGED <<link, connected, activeBoard, loading>>
    /\ UNCHANGED <<relayVars, dbVars, mutationVars, presenceVars, resolveVars, localVars>>

\* collaboration.disconnect(): leaveBoard(), then the socket is closed; the
\* socket's disconnect event runs the disconnect handler before it returns
ManualDisconnect ==
    /\ Step("disconnect", currentBoard)
    /\ DoLeaveBoard
    /\ link' = "off"
    /\ connected' = FALSE
    /\ direct' = TRUE
    /\ UNCHANGED <<activeBoard, loading>>
    /\ UNCHANGED <<relayVars, dbVars, mutationVars, presenceVars, resolveVars, localVars>>

\* collaboration.reconnect(): socket.connect() when not connected
Reconnect ==
    /\ Step("reconnect", 0)
    /\ link' = IF connected THEN link ELSE "down"
    /\ direct' = TRUE
    /\ UNCHANGED <<connected, currentBoard, sendBuffer, wire, activeBoard, loading,
                   wanted, dropped>>
    /\ UNCHANGED <<relayVars, dbVars, mutationVars, presenceVars, resolveVars, localVars>>

\* the socket connects (first connection or automatic reconnection): its send
\* buffer is flushed, then socket.on('connect') runs
OnConnect ==
    /\ link = "down"
    /\ Step("connect", dropped)
    /\ link' = "up"
    /\ connected' = TRUE
    /\ wire' = wire \o sendBuffer \o RejoinPackets(currentBoard)
    /\ sendBuffer' = <<>>
    /\ wanted' = 0
    /\ dropped' = 0
    /\ UNCHANGED <<currentBoard, activeBoard, loading, direct>>
    /\ UNCHANGED <<relayVars, dbVars, mutationVars, presenceVars, resolveVars, localVars>>

\* the transport drops: socket.on('disconnect') runs and the socket starts
\* reconnecting
OnDisconnect ==
    /\ link = "up"
    /\ Step("drop", currentBoard)
    /\ link' = "down"
    /\ connected' = FALSE
    /\ dropped' = currentBoard
    /\ UNCHANGED <<currentBoard, sendBuffer, wire, activeBoard, loading, wanted, direct>>
    /\ UNCHANGED <<relayVars, dbVars, mutationVars, presenceVars, resolveVars, localVars>>

\* a send that does not look at the connection or the board
SendAlways(pkt) ==
    /\ wire' = WireAfter(link, wire, <<pkt>>)
    /\ sendBuffer' = BufferAfter(link, sendBuffer, <<pkt>>)

\* if (this.connected && this.currentBoard) this.socket.emit(...)
SendInRoom(pkt) ==
    IF connected /\ currentBoard # 0
    THEN /\ wire' = WireAfter(link, wire, <<pkt>>)
         /\ sendBuffer' = BufferAfter(link, sendBuffer, <<pkt>>)
    ELSE UNCHANGED <<wire, sendBuffer>>

\* broadcastCursorPosition(x, y)
BroadcastCursorPosition ==
    /\ Step("sendCursor", currentBoard)
    /\ SendInRoom(CursorPacket(currentBoard))
    /\ UNCHANGED <<link, connected, currentBoard, activeBoard, loading, wanted, dropped, direct>>
    /\ UNCHANGED <<relayVars, dbVars, mutationVars, presenceVars, resolveVars, localVars>>

\* broadcastCardPosition(cardId, x, y)
BroadcastCardPosition ==
    /\ Step("sendCardPosition", currentBoard)
    /\ SendInRoom(PositionPacket(currentBoard))
    /\ UNCHANGED <<link, connected, currentBoard, activeBoard, loading, wanted, dropped, direct>>
    /\ UNCHANGED <<relayVars, dbVars, mutationVars, presenceVars, resolveVars, localVars>>

\* CorkboardApp.init: loadInitialData has set the first active board, then
\* setupCollaboration joins it
SetupCollaboration(b) ==
    /\ activeBoard = 0
    /\ Step("setupCollaboration", b)
    /\ activeBoard' = b
    /\ DoJoinBoard(b)
    /\ UNCHANGED <<link, connected, loading, dropped, direct>>
    /\ UNCHANGED <<relayVars, dbVars, mutationVars, presenceVars, resolveVars, localVars>>

\* switchBoard(b) up to its await: leaves the room if connected, then waits
\* for boardManager.loadBoard(b)
SwitchBoard(b) ==
    /\ activeBoard # 0
    /\ activeBoard # b
    /\ Step("switchBoard", b)
    /\ loading' = loading \cup {b}
    /\ IF connected
       THEN DoLeaveBoard
       ELSE UNCHANGED <<currentBoard, wire, sendBuffer, wanted, dropped>>
    /\ UNCHANGED <<link, connected, activeBoard, direct>>
    /\ UNCHANGED <<relayVars, dbVars, mutationVars, presenceVars, resolveVars, localVars>>

\* loadBoard(b) resolved: the board becomes active and, if connected, its
\* room is joined
LoadBoardDone(b) ==
    /\ b \in loading
    /\ Step("boardLoaded", b)
    /\ loading' = loading \ {b}
    /\ activeBoard' = b
    /\ IF connected
       THEN DoJoinBoard(b)
       ELSE UNCHANGED <<currentBoard, wire, sendBuffer, wanted>>
    /\ UNCHANGED <<link, connected, dropped, direct>>
    /\ UNCHANGED <<relayVars, dbVars, mutationVars, presenceVars, resolveVars, localVars>>

\* loadBoard(b) rejected: switchBoard's catch reports it and changes nothing
LoadBoardFailed(b) ==
    /\ b \in loading
    /\ Step("boardLoadFailed", b)
    /\ loading' = loading \ {b}
    /\ UNCHANGED <<link, connected, currentBoard, sendBuffer, wire, activeBoard,
                   wanted, dropped, direct>>
    /\ UNCHANGED <<relayVars, dbVars, mutationVars, presenceVars, resolveVars, localVars>>

ClientNext ==
    \/ \E b \in Boards : JoinBoard(b)
    \/ LeaveBoard
    \/ ManualDisconnect
    \/ Reconnect
    \/ OnConnect
    \/ OnDisconnect
    \/ BroadcastCursorPosition
    \/ BroadcastCardPosition
    \/ \E b \in Boards : SetupCollaboration(b)
    \/ \E b \in Boards : SwitchBoard(b)
    \/ \E b \in Boards : LoadBoardDone(b)
    \/ \E b \in Boards : LoadBoardFailed(b)

ClientSpec == Init /\ [][ClientNext]_vars

(***************************************************************************)
(* Properties of the CollaborationManager and of board switching.          *)
(***************************************************************************)
\* this step is a call or transport event named by one of `ops`
Called(ops) == steps' = steps + 1 /\ lastCall'.op \in ops

\* the last packet written to the relay
LastWritten == wire[Len(wire)]

SendNames == {"cursor-update", "card-position-update"}

\* C11: when joinBoard(b) runs on a connected client that is in another
\* board r, leave-board(r) is emitted before join-board(b) and the current
\* board becomes b.
C11_LeaveBeforeJoin ==
    [][\A b \in Boards :
          (/\ Called({"joinBoard", "boardLoaded", "setupCollaboration"})
           /\ lastCall'.board = b
           /\ connected
           /\ currentBoard # 0
           /\ currentBoard # b)
          => /\ wire' = wire \o <<LeavePacket(currentBoard), JoinPacket(b)>>
             /\ currentBoard' = b]_vars

\* connected, joined board 1, then joinBoard(2): three steps, three packets
C11_Witness ==
    /\ steps = 3
    /\ lastCall = [op |-> "joinBoard", board |-> 2]
    /\ wire = <<JoinPacket(1), LeavePacket(1), JoinPacket(2)>>
    /\ currentBoard = 2

\* C12: a board asked for with joinBoard while not connected is joined when
\* the client next connects: join-board for it is emitted by the connect
\* handler and it becomes the current board.
C12_IntendedRoomJoined ==
    [][(link # "up" /\ link' = "up" /\ wanted # 0)
          => /\ Len(wire') > Len(wire)
             /\ wire'[Len(wire')] = JoinPacket(wanted)
             /\ currentBoard' = wanted]_vars

\* C13: when the transport dropped while the client was in board r and
\* neither leaveBoard nor disconnect() was called since, the reconnect emits
\* join-board(r) and the client is in r again.
C13_RejoinsAfterDrop ==
    [][(link = "down" /\ link' = "up" /\ dropped # 0)
          => /\ wire' = wire \o sendBuffer \o <<JoinPacket(dropped)>>
             /\ currentBoard' = dropped
             /\ connected']_vars

\* the client has reconnected after a drop in board r and joined r a second time
C13_Witness ==
    \E r \in Boards :
       /\ lastCall = [op |-> "connect", board |-> r]
       /\ connected
       /\ currentBoard = r
       /\ Len(wire) >= 2
       /\ LastWritten = JoinPacket(r)
       /\ wire[1] = JoinPacket(r)

\* C14: whenever the client is connected and no board switch is in progress,
\* the board the manager has joined is the application's active board (the
\* manager being driven by the application alone).
C14_RoomFollowsActiveBoard ==
    (~direct /\ connected /\ loading = {}) => currentBoard = activeBoard

\* C15: a cursor or card position send emits one packet when the client is
\* connected and in a board; otherwise it changes nothing and buffers
\* nothing, and such a packet is written to the relay only by such a send.
C15_SendOnlyInRoom ==
    [][/\ Called({"sendCursor", "sendCardPosition"}) =>
            IF connected /\ currentBoard # 0
            THEN /\ wire' = Append(wire, IF lastCall'.op = "sendCursor"
                                         THEN CursorPacket(currentBoard)
                                         ELSE PositionPacket(currentBoard))
                 /\ UNCHANGED <<link, connected, currentBoard, sendBuffer>>
            ELSE UNCHANGED <<link, connected, currentBoard, sendBuffer, wire,
                             activeBoard, loading>>
       /\ \A i \in 1..Len(sendBuffer') : sendBuffer'[i].name \notin SendNames
       /\ \A i \in (Len(wire) + 1)..Len(wire') :
             wire'[i].name \in SendNames =>
                /\ Called({"sendCursor", "sendCardPosition"})
                /\ connected /\ currentBoard # 0]_vars

\* a cursor send was made while the transport was down with a board still
\* current, and nothing is buffered
C15_Witness ==
    /\ lastCall.op = "sendCursor"
    /\ link = "down"
    /\ currentBoard # 0
    /\ sendBuffer = <<>>
    /\ \E i \in 1..Len(wire) : wire[i].name = "cursor-update"

(***************************************************************************)
(* Card events at one client that has joined the room of its active board. *)
(* The relay writes every card event to the whole room (IoTo), the client  *)
(* that made the mutation included; `own` records that origin, which no    *)
(* field of the event carries.                                             *)
(***************************************************************************)
\* card mutations, local and remote, in one behaviour
MaxMutations == 3

MutationNames == {"card-created", "card-updated", "card-deleted"}

CardEvent(name, id, own) == [name |-> name, id |-> id, own |-> own]

\* the ids of a sequence of cards
IdsOf(cs) == {cs[i] : i \in 1..Len(cs)}

\* one more mutation reaches the relay, which writes its event to this client
Mutate(name, id, own) ==
    /\ mutations < MaxMutations
    /\ mutations' = mutations + 1
    /\ inbox' = Append(inbox, CardEvent(name, id, own))
    /\ UNCHANGED handed
    /\ UNCHANGED <<relayVars, dbVars, clientVars, presenceVars, resolveVars, localVars>>

\* boardManager.createCard: POST /api/cards, then the card is pushed to
\* activeBoard.cards; the relay emits card-created to the room
CreateCard(id) ==
    /\ id \notin IdsOf(cards)
    /\ cards' = Append(cards, id)
    /\ Mutate("card-created", id, TRUE)

\* boardManager.updateCard: PUT, then Object.assign on the local card
UpdateCard(id) ==
    /\ id \in IdsOf(cards)
    /\ UNCHANGED cards
    /\ Mutate("card-updated", id, TRUE)

\* boardManager.deleteCard: DELETE, then the card is filtered out locally
DeleteCardLocal(id) ==
    /\ id \in IdsOf(cards)
    /\ cards' = SelectSeq(cards, LAMBDA c : c # id)
    /\ Mutate("card-deleted", id, TRUE)

\* a peer in the same room creates, updates or deletes a card
PeerMutation(name, id) ==
    /\ UNCHANGED cards
    /\ Mutate(name, id, FALSE)

\* this.emit('remote-card-...', data): every event is handed on
HandOn(h, ev) == Append(h, ev)

\* socket.on(name) of the manager for the card event at the head of the
\* inbox; the application registers no listener for remote-card-* events
OnCardEvent(name) ==
    /\ inbox # <<>>
    /\ Head(inbox).name = name
    /\ inbox' = Tail(inbox)
    /\ handed' = HandOn(handed, Head(inbox))
    /\ UNCHANGED <<cards, mutations>>
    /\ UNCHANGED <<relayVars, dbVars, clientVars, presenceVars, resolveVars, localVars>>

OnCardCreated == OnCardEvent("card-created")

OnCardUpdated == OnCardEvent("card-updated")

OnCardDeleted == OnCardEvent("card-deleted")

MutationNext ==
    \/ \E id \in CardIds : CreateCard(id)
    \/ \E id \in CardIds : UpdateCard(id)
    \/ \E id \in CardIds : DeleteCardLocal(id)
    \/ \E name \in MutationNames, id \in CardIds : PeerMutation(name, id)
    \/ OnCardCreated
    \/ OnCardUpdated
    \/ OnCardDeleted

MutationSpec == Init /\ [][MutationNext]_vars

\* C16: a card event that this client's own mutation caused is discarded by
\* the client: it is never handed on as a remote card event.
C16_OwnEventsDiscarded ==
    \A i \in 1..Len(handed) : ~handed[i].own

(***************************************************************************)
(* Presence shown by one client: typing indicators and cursor markers of   *)
(* its peers, with their timers.  The relay tags every presence event with *)
(* the sender's socket id and never writes it to the sender, so the userId *)
(* of an event is a peer's socket id.                                      *)
(***************************************************************************)
\* presence events received in one behaviour
MaxArrivals == 4

\* socket ids of the peers in the room
Peers == {"sA", "sB"}

\* cards of the board that typing events name
TypingCards == {"c1"}

\* getFieldType
FieldTypes == {"title", "body"}

TypingData == [userId : Peers, cardId : TypingCards, fieldType : FieldTypes]

\* an indicator keyed by user and card only
KeyWithoutField(d) == d.userId \o "-" \o d.cardId

\* `${typingData.userId}-${typingData.cardId}-${typingData.fieldType}`
IndicatorKey(d) == d.userId \o "-" \o d.cardId \o "-" \o d.fieldType

\* key.startsWith(`${userId}-`)
KeyOfUser(k, u) ==
    \E c \in TypingCards, f \in FieldTypes \cup {""} :
       k = u \o "-" \o c \o (IF f = "" THEN "" ELSE "-" \o f)

Shown(k) == k \in DOMAIN typingIndicators

\* hideTypingIndicator: the entry of key k is deleted, ...
MapAfterHide(k) == Remove(typingIndicators, k)

\* ... its element removed from the document, ...
ElsAfterHide(k) ==
    IF Shown(k)
    THEN {e \in indicatorEls : e.el # typingIndicators[k].element}
    ELSE indicatorEls

\* document.createElement('div'), appended to the card's element
IndicatorEl(n, d) ==
    [el |-> n, userId |-> d.userId, cardId |-> d.cardId, fieldType |-> d.fieldType]

\* ... and its timer cleared
TimersAfterHide(ts, k) ==
    IF Shown(k) THEN {t \in ts : t.id # typingIndicators[k].timeout} ELSE ts

\* an indicator without an expiry
NoTimer(n, d) == {}

\* setTimeout(() => this.hideTypingIndicator(typingData), 5000)
IndicatorTimer(n, d) ==
    {[id |-> n, kind |-> "typing", userId |-> d.userId, cardId |-> d.cardId,
      fieldType |-> d.fieldType, el |-> n]}

\* what lastEvent records of an event
Ev(op, u, c, f, x, y) ==
    [op |-> op, userId |-> u, cardId |-> c, fieldType |-> f, x |-> x, y |-> y]

\* one more presence event is received
Arrive(ev) ==
    /\ arrivals < MaxArrivals
    /\ arrivals' = arrivals + 1
    /\ lastEvent' = ev

\* socket.on('typing-start') -> showTypingIndicator; `rendered` tells whether
\* the card's element is in the document
OnTypingStart(d, rendered) ==
    /\ d.userId \notin away
    /\ Arrive(Ev("typing-start", d.userId, d.cardId, d.fieldType, 0, 0))
    /\ IF rendered
       THEN LET k == IndicatorKey(d)
            IN /\ typingIndicators' =
                     Put(MapAfterHide(k), k, [element |-> nextId, timeout |-> nextId])
               /\ indicatorEls' = ElsAfterHide(k) \cup {IndicatorEl(nextId, d)}
               /\ timers' = TimersAfterHide(timers, k) \cup IndicatorTimer(nextId, d)
               /\ nextId' = nextId + 1
       ELSE UNCHANGED <<typingIndicators, indicatorEls, timers, nextId>>
    /\ UNCHANGED <<cursors, cursorEls, away>>
    /\ UNCHANGED <<relayVars, dbVars, clientVars, mutationVars, resolveVars, localVars>>

\* socket.on('typing-stop') -> hideTypingIndicator
OnTypingStop(d) ==
    /\ d.userId \notin away
    /\ Arrive(Ev("typing-stop", d.userId, d.cardId, d.fieldType, 0, 0))
    /\ LET k == IndicatorKey(d)
       IN /\ typingIndicators' = MapAfterHide(k)
          /\ indicatorEls' = ElsAfterHide(k)
          /\ timers' = TimersAfterHide(timers, k)
    /\ UNCHANGED <<cursors, cursorEls, nextId, away>>
    /\ UNCHANGED <<relayVars, dbVars, clientVars, mutationVars, resolveVars, localVars>>

\* the timer of an indicator fires: hideTypingIndicator(typingData)
TypingExpire(t) ==
    /\ t \in timers
    /\ t.kind = "typing"
    /\ lastEvent' = Ev("typing-expire", t.userId, t.cardId, t.fieldType, 0, 0)
    /\ LET k == IndicatorKey([userId |-> t.userId, cardId |-> t.cardId,
                              fieldType |-> t.fieldType])
       IN /\ typingIndicators' = MapAfterHide(k)
          /\ indicatorEls' = ElsAfterHide(k)
          /\ timers' = TimersAfterHide(timers \ {t}, k)
    /\ UNCHANGED <<cursors, cursorEls, nextId, away, arrivals>>
    /\ UNCHANGED <<relayVars, dbVars, clientVars, mutationVars, resolveVars, localVars>>

\* a peer's transport drops while its indicator is shown: the relay's
\* disconnect handler only logs, so nothing reaches this client
PeerDrops(u) ==
    /\ u \notin away
    /\ \E k \in DOMAIN typingIndicators : KeyOfUser(k, u)
    /\ away' = away \cup {u}
    /\ lastEvent' = Ev("peer-drop", u, "", "", 0, 0)
    /\ UNCHANGED <<typingIndicators, indicatorEls, cursors, cursorEls, timers, nextId, arrivals>>
    /\ UNCHANGED <<relayVars, dbVars, clientVars, mutationVars, resolveVars, localVars>>

\* pointer positions <<x, y>> of cursor events
CursorPoints == {<<10, 20>>, <<30, 40>>}

Registered(u) == u \in DOMAIN cursors

\* a lookup that leaves the pending timer running
TimersKept(ts, u) == ts

\* getOrCreateCursor: clearTimeout(cursorData.timeout)
TimersCleared(ts, u) ==
    IF Registered(u) THEN {t \in ts : t.id # cursors[u].timeout} ELSE ts

\* setTimeout(() => { cursor.style.display = 'none' }, 3000)
CursorTimer(n, u, el) ==
    [id |-> n, kind |-> "cursor", userId |-> u, cardId |-> "", fieldType |-> "", el |-> el]

\* socket.on('cursor-update') -> updateCursor: the user's element is looked up
\* or created, moved and shown, and a new hide timer replaces the old one
OnCursorUpdate(u, pt) ==
    /\ u \notin away
    /\ Arrive(Ev("cursor-update", u, "", "", pt[1], pt[2]))
    /\ LET el == IF Registered(u) THEN cursors[u].element ELSE nextId
           tm == IF Registered(u) THEN nextId ELSE nextId + 1
       IN /\ cursorEls' = Put(cursorEls, el,
                              [userId |-> u, x |-> pt[1], y |-> pt[2], display |-> "block"])
          /\ cursors' = Put(cursors, u, [element |-> el, timeout |-> tm])
          /\ timers' = TimersCleared(timers, u) \cup {CursorTimer(tm, u, el)}
          /\ nextId' = tm + 1
    /\ UNCHANGED <<typingIndicators, indicatorEls, away>>
    /\ UNCHANGED <<relayVars, dbVars, clientVars, mutationVars, resolveVars, localVars>>

\* the hide timer of a cursor fires: the element is hidden, the entry stays
CursorExpire(t) ==
    /\ t \in timers
    /\ t.kind = "cursor"
    /\ lastEvent' = Ev("cursor-expire", t.userId, "", "", 0, 0)
    /\ timers' = timers \ {t}
    /\ cursorEls' = IF t.el \in DOMAIN cursorEls
                    THEN [cursorEls EXCEPT ![t.el].display = "none"]
                    ELSE cursorEls
    /\ UNCHANGED <<typingIndicators, indicatorEls, cursors, nextId, away, arrivals>>
    /\ UNCHANGED <<relayVars, dbVars, clientVars, mutationVars, resolveVars, localVars>>

\* keys of the indicator entries of user u (of all users when u = "")
KeysOf(u) == {k \in DOMAIN typingIndicators : u = "" \/ KeyOfUser(k, u)}

\* ids of the timers the entries of user u hold (all users when u = "")
HeldTimers(u) ==
    {cursors[v].timeout : v \in {w \in DOMAIN cursors : u \in {"", w}}}
    \cup {typingIndicators[k].timeout : k \in KeysOf(u)}

\* ids of the indicator elements the entries of user u hold
HeldEls(u) == {typingIndicators[k].element : k \in KeysOf(u)}

\* socket.on('user-left'): removeCursor(userId), removeTypingIndicator(userId)
OnUserLeft(u) ==
    /\ u \notin away
    /\ Arrive(Ev("user-left", u, "", "", 0, 0))
    /\ cursors' = Remove(cursors, u)
    /\ cursorEls' = IF Registered(u) THEN Remove(cursorEls, cursors[u].element) ELSE cursorEls
    /\ typingIndicators' = [k \in DOMAIN typingIndicators \ KeysOf(u) |-> typingIndicators[k]]
    /\ indicatorEls' = {e \in indicatorEls : e.el \notin HeldEls(u)}
    /\ timers' = {t \in timers : t.id \notin HeldTimers(u)}
    /\ UNCHANGED <<nextId, away>>
    /\ UNCHANGED <<relayVars, dbVars, clientVars, mutationVars, resolveVars, localVars>>

\* clearAllCursors() and clearAllTypingIndicators()
DoClearAll ==
    /\ cursors' = EmptyMap
    /\ cursorEls' = [e \in {x \in DOMAIN cursorEls :
                              \A v \in DOMAIN cursors : cursors[v].element # x} |-> cursorEls[e]]
    /\ typingIndicators' = EmptyMap
    /\ indicatorEls' = {e \in indicatorEls : e.el \notin HeldEls("")}
    /\ timers' = {t \in timers : t.id \notin HeldTimers("")}

\* clearAllCursors and clearAllTypingIndicators, as the disconnect handler
\* and leaveBoard call them
ClearAll ==
    /\ Arrive(Ev("clear", "", "", "", 0, 0))
    /\ DoClearAll
    /\ UNCHANGED <<nextId, away>>
    /\ UNCHANGED <<relayVars, dbVars, clientVars, mutationVars, resolveVars, localVars>>

\* some typing timer fires
TypingTimerFires == \E t \in timers : TypingExpire(t)

\* some cursor timer fires
CursorTimerFires == \E t \in timers : CursorExpire(t)

\* the typing indicators of the peers
TypingNext ==
    \/ \E d \in TypingData, rendered \in BOOLEAN : OnTypingStart(d, rendered)
    \/ \E d \in TypingData : OnTypingStop(d)
    \/ TypingTimerFires
    \/ \E u \in Peers : PeerDrops(u)
    \/ \E u \in Peers : OnUserLeft(u)
    \/ ClearAll

\* a pending timer fires eventually (setTimeout)
TypingSpec == Init /\ [][TypingNext]_vars /\ WF_vars(TypingTimerFires)

\* the cursor markers of the peers
CursorNext ==
    \/ \E u \in Peers, pt \in CursorPoints : OnCursorUpdate(u, pt)
    \/ CursorTimerFires
    \/ \E u \in Peers : OnUserLeft(u)
    \/ ClearAll

CursorSpec == Init /\ [][CursorNext]_vars

(***************************************************************************)
(* Properties of the presence display.                                     *)
(***************************************************************************)
Triple(r) == <<r.userId, r.cardId, r.fieldType>>

\* the indicator elements in the document for one (userId, cardId, fieldType)
ElsOf(els, d) == {e \in els : Triple(e) = Triple(d)}

\* the pending expiry timers of one (userId, cardId, fieldType)
TimersOf(ts, d) == {t \in ts : t.kind = "typing" /\ Triple(t) = Triple(d)}

TypingOps == {"typing-start", "typing-stop", "typing-expire"}

\* C17: an indicator shown for a remote typing-start is eventually removed
\* with no further message, also when its typist disconnected without a
\* typing-stop: its expiry timer removes it.
C17_IndicatorExpires ==
    \A d \in TypingData : (ElsOf(indicatorEls, d) # {}) ~> (ElsOf(indicatorEls, d) = {})

\* the only event received was a typing-start of a peer that then dropped,
\* and the timer has removed its indicator
C17_Witness ==
    \E u \in away :
       /\ arrivals = 1
       /\ lastEvent.op = "typing-expire"
       /\ lastEvent.userId = u
       /\ indicatorEls = {}
       /\ typingIndicators = EmptyMap
       /\ timers = {}

\* C18: a typing-start, typing-stop or expiry of one (userId, cardId,
\* fieldType) leaves the indicator and the timer of every other triple as
\* they were, and each triple has at most one indicator, with exactly one
\* pending timer.
C18_TriplesIndependent ==
    [][\A d \in TypingData :
          /\ (lastEvent'.op \in TypingOps /\ Triple(lastEvent') # Triple(d))
                => /\ ElsOf(indicatorEls', d) = ElsOf(indicatorEls, d)
                   /\ TimersOf(timers', d) = TimersOf(timers, d)
          /\ Cardinality(ElsOf(indicatorEls', d)) <= 1
          /\ Cardinality(TimersOf(timers', d)) = Cardinality(ElsOf(indicatorEls', d))]_vars

\* the indicator of one field is up when a typing-start for another field
\* of the same card and user is handled: both are shown, each with its timer
C18_Witness ==
    \E d \in TypingData, e \in TypingData :
       /\ Triple(d) # Triple(e)
       /\ d.userId = e.userId /\ d.cardId = e.cardId
       /\ lastEvent.op = "typing-start" /\ Triple(lastEvent) = Triple(d)
       /\ arrivals = 3
       /\ ElsOf(indicatorEls, d) = {IndicatorEl(3, d)}
       /\ ElsOf(indicatorEls, e) = {IndicatorEl(2, e)}
       /\ Cardinality(timers) = 2

\* the cursor elements in the document for one user
MarkersOf(ce, u) == {e \in DOMAIN ce : ce[e].userId = u}

\* the pending hide timers of one user's cursor
CursorTimersOf(ts, u) == {t \in ts : t.kind = "cursor" /\ t.userId = u}

\* C19: a cursor-update leaves exactly one marker for its user, the one the
\* user already had if any, at the event's position and visible, with
\* exactly one pending hide timer, a new one; when that timer fires the
\* marker is hidden and stays registered.  No user ever has two markers or
\* two pending timers.
C19_OneMarkerOneTimer ==
    [][\A u \in Peers :
          /\ (lastEvent'.op = "cursor-update" /\ lastEvent'.userId = u
              /\ arrivals' = arrivals + 1)
                => /\ \E e \in DOMAIN cursorEls' :
                         /\ MarkersOf(cursorEls', u) = {e}
                         /\ MarkersOf(cursorEls, u) \subseteq {e}
                         /\ cursorEls'[e] = [userId |-> u, x |-> lastEvent'.x,
                                             y |-> lastEvent'.y, display |-> "block"]
                         /\ cursors'[u].element = e
                         /\ \E t \in timers' \ timers :
                               /\ CursorTimersOf(timers', u) = {t}
                               /\ t.el = e
                               /\ cursors'[u].timeout = t.id
                   /\ \A v \in Peers \ {u} :
                         /\ MarkersOf(cursorEls', v) = MarkersOf(cursorEls, v)
                         /\ CursorTimersOf(timers', v) = CursorTimersOf(timers, v)
          /\ (lastEvent'.op = "cursor-expire" /\ lastEvent'.userId = u /\ timers' # timers)
                => /\ cursors' = cursors
                   /\ MarkersOf(cursorEls', u) = MarkersOf(cursorEls, u)
                   /\ \A e \in MarkersOf(cursorEls', u) : cursorEls'[e].display = "none"
                   /\ CursorTimersOf(timers', u) = {}
          /\ Cardinality(MarkersOf(cursorEls', u)) <= 1
          /\ Cardinality(CursorTimersOf(timers', u)) <= 1]_vars

\* a user's marker was created, repositioned by a second update (its timer
\* replaced), then hidden by the timer: it is still registered
C19_Witness ==
    \E u \in Peers :
       /\ arrivals = 2
       /\ nextId = 4
       /\ lastEvent.op = "cursor-expire"
       /\ Registered(u)
       /\ cursors[u] = [element |-> 1, timeout |-> 3]
       /\ cursorEls[1].display = "none"
       /\ cursorEls[1].x = 30
       /\ timers = {}

(***************************************************************************)
(* resolveConflict(localData, remoteData).  A stored timestamp is the ISO  *)
(* string new Date().toISOString() wrote, held here as <<second, ms>>, or  *)
(* is missing, held as <<>>.                                               *)
(***************************************************************************)
\* latest second a timestamp of the model names
MaxSecond == 2

\* values of the updated_at and modified fields
StampValues == {<<>>} \cup {<<sec, ms>> : sec \in 1..MaxSecond, ms \in {0, 999}}

\* the two versions of an entity
Entities ==
    [id : {"k1"}, title : {"mine", "theirs"}, updated_at : StampValues, modified : StampValues]

\* data.updated_at || data.modified || 0
StampOf(d) ==
    IF d.updated_at # <<>> THEN d.updated_at
    ELSE IF d.modified # <<>> THEN d.modified
    ELSE <<>>

\* new Date(v).getTime(): milliseconds since the epoch, 0 for new Date(0)
GetTime(v) == IF v = <<>> THEN 0 ELSE v[1] * 1000 + v[2]

\* a comparison that keeps the local version on a tie
Later(r, l) == r > l

\* remoteTimestamp >= localTimestamp
NotEarlier(r, l) == r >= l

\* a resolver that stamps the version it returns one second later
Restamped(ld, rd) ==
    LET won == IF NotEarlier(GetTime(StampOf(rd)), GetTime(StampOf(ld))) THEN rd ELSE ld
    IN  [won EXCEPT !.updated_at = <<GetTime(StampOf(won)) \div 1000 + 1, 0>>]

resolveConflict(ld, rd) ==
    IF NotEarlier(GetTime(StampOf(rd)), GetTime(StampOf(ld))) THEN rd ELSE ld

\* the two versions handed to one call
ResolveInit ==
    /\ RelayStart /\ ClientStart /\ MutationStart /\ PresenceStart /\ LocalStart
    /\ localData \in Entities
    /\ remoteData \in Entities
    /\ resolved = <<>>

\* collaboration.resolveConflict(localData, remoteData)
Resolve ==
    /\ resolved = <<>>
    /\ resolved' = <<resolveConflict(localData, remoteData)>>
    /\ UNCHANGED <<localData, remoteData>>
    /\ UNCHANGED <<relayVars, dbVars, clientVars, mutationVars, presenceVars, localVars>>

\* collaboration.resolveConflict(result, remoteData): the result of the first
\* call resolved against the same remote version
ResolveAgain ==
    /\ Len(resolved) = 1
    /\ resolved' = Append(resolved, resolveConflict(resolved[1], remoteData))
    /\ UNCHANGED <<localData, remoteData>>
    /\ UNCHANGED <<relayVars, dbVars, clientVars, mutationVars, presenceVars, localVars>>

ResolveNext == Resolve \/ ResolveAgain

ResolveSpec == ResolveInit /\ [][ResolveNext]_vars

\* the modification timestamp of a version: updated_at, else modified, else
\* the epoch
ModifiedAt(d) == IF StampOf(d) = <<>> THEN <<0, 0>> ELSE StampOf(d)

\* timestamp a is at or after timestamp b
AtOrAfter(a, b) == a[1] > b[1] \/ (a[1] = b[1] /\ a[2] >= b[2])

\* C20: the result is the remote version when its modification timestamp is
\* at or after the local one's, the local version otherwise; so a tie gives
\* the remote version and resolving a version against itself gives it back.
C20_LastWriterWins ==
    resolved # <<>> =>
       /\ AtOrAfter(ModifiedAt(remoteData), ModifiedAt(localData)) => resolved[1] = remoteData
       /\ ~AtOrAfter(ModifiedAt(remoteData), ModifiedAt(localData)) => resolved[1] = localData
       /\ ModifiedAt(remoteData) = ModifiedAt(localData) => resolved[1] = remoteData
       /\ remoteData = localData => resolved[1] = localData

\* two different versions with the same timestamp, one in updated_at and one
\* in modified: the remote one was returned
C20_Witness ==
    /\ resolved # <<>>
    /\ localData # remoteData
    /\ localData.title # remoteData.title
    /\ localData.updated_at = <<2, 0>>
    /\ remoteData.updated_at = <<>>
    /\ remoteData.modified = <<2, 0>>
    /\ resolved[1] = remoteData

\* C21: resolving is idempotent in its first argument: the result of
\* resolve(a, b), resolved against b again, is that same result.
C21_ResolveIdempotent ==
    Len(resolved) = 2 => resolved[2] = resolved[1]

\* the local version was strictly newer and won, and was then resolved
\* against the remote version a second time
C21_Witness ==
    /\ Len(resolved) = 2
    /\ localData # remoteData
    /\ resolved[1] = localData
    /\ GetTime(StampOf(localData)) > GetTime(StampOf(remoteData))

(***************************************************************************)
(* Connection retries (collaboration.js, initializeConnection and the      *)
(* connect / connect_error handlers).  The socket is created with          *)
(* reconnection on and reconnectionAttempts = maxRetries: a failed first   *)
(* attempt or a dropped transport starts a series of reconnection          *)
(* attempts; every failed attempt raises connect_error; the series ends    *)
(* when an attempt succeeds or when maxRetries reconnection attempts have  *)
(* been made.                                                              *)
(***************************************************************************)

\* a series that stops two attempts short
ExhaustedEarly(n) == n >= maxRetries - 2

\* backoff.attempts >= reconnectionAttempts
Exhausted(n) == n >= maxRetries

\* everything but the retry bookkeeping
NotRetry == <<relayVars, dbVars, sessionVars, faultVars, undoVars, syncVars, cacheVars,
              roomVars>>

\* socket.on('connect_error'): a connection attempt failed.  The handler
\* counts it and signals connection-failed at maxRetries; the socket then
\* schedules the next attempt or gives up.
OnConnectError ==
    /\ sock = "connecting"
    /\ errors < MaxFailures
    /\ errors' = errors + 1
    /\ failures' = failures + 1
    /\ connectionRetries' = connectionRetries + 1
    /\ signalled' = (signalled \/ connectionRetries + 1 >= maxRetries)
    /\ IF Exhausted(backoffAttempts)
         THEN /\ sock' = "stopped"
              /\ backoffAttempts' = 0
              /\ closedBy' = "exhausted"
         ELSE /\ backoffAttempts' = backoffAttempts + 1
              /\ UNCHANGED <<sock, closedBy>>
    /\ UNCHANGED NotRetry

\* socket.on('connect'): an attempt succeeded
OnConnected ==
    /\ sock = "connecting"
    /\ sock' = "open"
    /\ backoffAttempts' = 0
    /\ connectionRetries' = 0
    /\ signalled' = FALSE
    /\ failures' = 0
    /\ UNCHANGED <<closedBy, errors>>
    /\ UNCHANGED NotRetry

\* the transport drops: the socket resets its backoff and schedules the
\* first reconnection attempt; the disconnect handler leaves the count alone
OnDropped ==
    /\ sock = "open"
    /\ sock' = "connecting"
    /\ backoffAttempts' = 1
    /\ UNCHANGED <<connectionRetries, signalled, failures, closedBy, errors>>
    /\ UNCHANGED NotRetry

\* collaboration.disconnect(): socket.disconnect() closes the socket and
\* cancels any pending attempt
Disconnected ==
    /\ sock' = "stopped"
    /\ closedBy' = "disconnect"
    /\ backoffAttempts' = 0
    /\ UNCHANGED <<connectionRetries, signalled, failures, errors>>
    /\ UNCHANGED NotRetry

\* collaboration.reconnect(): socket.connect() opens a stopped socket again;
\* it changes nothing while an attempt is pending
Reconnected ==
    /\ sock = "stopped"
    /\ sock' = "connecting"
    /\ closedBy' = ""
    /\ UNCHANGED <<backoffAttempts, connectionRetries, signalled, failures, errors>>
    /\ UNCHANGED NotRetry

RetryNext == OnConnectError \/ OnConnected \/ OnDropped \/ Disconnected \/ Reconnected

RetrySpec == Init /\ [][RetryNext]_vars

NoPayload == [undefined |-> TRUE]

\* the handlers that read data.boardId
BoardIdReaders == {"card-position-update", "cursor-update", "typing-start", "typing-stop"}

BadMsgs == {[name |-> n, data |-> NoPayload] :
               n \in {"card-position-update", "cursor-update", "typing-start"}}

\* the head of c's inbound stream carries an object
HasPayload(c) == inq[c] # <<>> /\ "boardId" \in DOMAIN Head(inq[c]).data

\* data.boardId of undefined: the TypeError leaves the listener uncaught and
\* ends the process; every socket closes and every room goes with it
Throws(c) ==
    /\ status' = [x \in Conns |-> IF status[x] = "open" THEN "closed" ELSE status[x]]
    /\ gone' = [x \in Conns |-> IF status[x] = "open" THEN RoomsOf(rooms, x) ELSE gone[x]]
    /\ rooms' = [r \in RoomNames |-> {}]
    /\ inq' = [x \in Conns |-> <<>>]
    /\ chan' = [x \in Conns |-> <<>>]
    /\ relayUp' = FALSE

\* one of the four handlers takes a message without a payload
HandleNoPayload(c) ==
    /\ relayUp
    /\ status[c] = "open"
    /\ inq[c] # <<>>
    /\ Head(inq[c]).name \in BoardIdReaders
    /\ ~HasPayload(c)
    /\ handledBad' = handledBad + 1
    /\ Throws(c)
    /\ UNCHANGED <<hi, nseq, lastOp, missed>>
    /\ UNCHANGED <<dbVars, sessionVars, retryVars, undoVars, syncVars, cacheVars, roomVars>>

FaultConnect(c) == relayUp /\ Connect(c)

FaultSend(c, m) == relayUp /\ ClientSend(c, m)

FaultDeliver(c) == relayUp /\ Deliver(c)

FaultJoinBoard(c) == relayUp /\ HandleJoinBoard(c)

FaultCursorUpdate(c) == relayUp /\ HasPayload(c) /\ HandleCursorUpdate(c)

FaultDisconnect(c) == relayUp /\ Disconnect(c)

FaultNext ==
    \/ \E c \in Conns : FaultConnect(c)
    \/ \E c \in Conns, m \in JoinMsgs \cup CursorMsgs \cup BadMsgs : FaultSend(c, m)
    \/ \E c \in Conns : FaultDeliver(c)
    \/ \E c \in Conns : FaultJoinBoard(c)
    \/ \E c \in Conns : FaultCursorUpdate(c)
    \/ \E c \in Conns : HandleNoPayload(c)
    \/ \E c \in Conns : FaultDisconnect(c)

FaultSpec == Init /\ [][FaultNext]_vars

\* C23: a message without a payload is dropped on its own: the step that
\* takes it off the sender's stream writes nothing to any peer, leaves every
\* connection open and every room as it was, takes nothing else off any
\* stream, and the relay goes on running.
C23_MalformedDroppedAlone ==
    [][handledBad' # handledBad =>
          /\ chan' = chan
          /\ status' = status
          /\ rooms' = rooms
          /\ \E c \in Conns : inq[c] # <<>> /\ inq' = [inq EXCEPT ![c] = Tail(@)]
          /\ relayUp']_vars

\* C24: joining a room the connection is already in is a no-op: when the
\* relay handles join-board for a socket that is a member of the room, the
\* membership of every room is the same after the step as before it.
C24_RejoinKeepsMembership ==
    [][\A c \in Conns :
          (Handles(c, "join-board") /\ c \in rooms[Room(Head(inq[c]).data.boardId)])
             => rooms' = rooms]_vars

\* the relay has handled join-board for a socket that was already in the room
C24_Witness ==
    \E c \in Conns :
       /\ lastOp[c].op = "join"
       /\ lastOp[c].member
       /\ c \in rooms[lastOp[c].room]

(***************************************************************************)
(* Undo and redo (app.js, saveState / undo / redo / restoreState).  The    *)
(* boards are abstracted to the number (mod 3) of the edit that produced   *)
(* them: an edit turns content v into v + 1, so a snapshot, the content it *)
(* was taken from and the content after the edit are told apart.  The      *)
(* stack operations and the synchronous part of restoreState run before    *)
(* the first await of undo() and redo(), so each call is one step.         *)
(***************************************************************************)
\* everything but the undo history
NotUndo == <<relayVars, dbVars, sessionVars, retryVars, faultVars, syncVars, cacheVars,
             roomVars>>

\* { boards: deepClone(boards), activeBoard: this.activeBoard?.id }
Snapshot == [boards |-> boardsVer, activeBoard |-> activeId]

\* the history and the boards as they are now
HistoryNow(phase) ==
    [phase |-> phase, boards |-> boardsVer, activeBoard |-> activeId,
     undoStack |-> undoStack, redoStack |-> redoStack]

\* a saveState that never discards
Uncapped(stack) == stack

\* if (this.undoStack.length >= this.maxUndoSteps) this.undoStack.shift()
Capped(stack) == IF Len(stack) >= maxUndoSteps THEN Tail(stack) ELSE stack

\* saveState()
DoSaveState ==
    /\ undoStack' = Append(Capped(undoStack), Snapshot)
    /\ redoStack' = <<>>

\* a restoreState that leaves the active board alone
RestoreBoardsOnly(state) ==
    /\ boardsVer' = state.boards
    /\ activeId' = activeId

\* restoreState(state): the boards of the snapshot, and its active board if
\* it names one
DoRestoreState(state) ==
    /\ boardsVer' = state.boards
    /\ activeId' = IF state.activeBoard # 0 THEN state.activeBoard ELSE activeId

\* createCard / duplicateCard / deleteCard: saveState(), then the edit
DoEdit ==
    /\ DoSaveState
    /\ boardsVer' = (boardsVer + 1) % 3
    /\ activeId' = activeId
    /\ undone' = IF undone.phase \in {"undone", "saved"}
                 THEN [NoneUndone EXCEPT !.phase = "saved"]
                 ELSE NoneUndone

\* undo()
DoUndo ==
    IF undoStack = <<>>
    THEN /\ undone' = NoneUndone
         /\ UNCHANGED <<undoStack, redoStack, boardsVer, activeId>>
    ELSE /\ redoStack' = Append(redoStack, Snapshot)
         /\ undoStack' = SubSeq(undoStack, 1, Len(undoStack) - 1)
         /\ DoRestoreState(undoStack[Len(undoStack)])
         /\ undone' = HistoryNow("undone")

\* what `undone` holds once redo() has run: the state before the undo() it
\* follows at once, or the state it found when a saveState() came in between
AfterRedo ==
    CASE undone.phase = "undone" -> [undone EXCEPT !.phase = "redone"]
      [] undone.phase = "saved" -> HistoryNow("idle")
      [] OTHER -> NoneUndone

\* redo()
DoRedo ==
    IF redoStack = <<>>
    THEN /\ undone' = AfterRedo
         /\ UNCHANGED <<undoStack, redoStack, boardsVer, activeId>>
    ELSE /\ undoStack' = Append(undoStack, Snapshot)
         /\ redoStack' = SubSeq(redoStack, 1, Len(redoStack) - 1)
         /\ DoRestoreState(redoStack[Len(redoStack)])
         /\ undone' = AfterRedo

\* switchBoard(b), once loadBoard has resolved: this.activeBoard = board
DoSwitch(b) ==
    /\ b # activeId
    /\ activeId' = b
    /\ undone' = NoneUndone
    /\ UNCHANGED <<undoStack, redoStack, boardsVer>>

EditCard == DoEdit /\ UNCHANGED histOps /\ UNCHANGED NotUndo

Undo == DoUndo /\ UNCHANGED histOps /\ UNCHANGED NotUndo

Redo == DoRedo /\ UNCHANGED histOps /\ UNCHANGED NotUndo

UndoNext == EditCard \/ Undo \/ Redo

UndoSpec == Init /\ [][UndoNext]_vars

\* C25: the undo stack never holds more than maxUndoSteps snapshots, and a
\* step that changes a full stack and leaves it full has dropped its oldest
\* snapshot and pushed the current state.
C25_UndoStackCapped ==
    [][/\ Len(undoStack') <= maxUndoSteps
       /\ (Len(undoStack) = maxUndoSteps /\ Len(undoStack') = maxUndoSteps
              /\ undoStack' # undoStack)
             => undoStack' = Append(Tail(undoStack), Snapshot)]_vars

\* the stack is full and its oldest snapshot is no longer the first one taken
C25_Witness ==
    /\ Len(undoStack) = maxUndoSteps
    /\ undoStack[1].boards # 0

(***************************************************************************)
(* The sync queue (storage.js, queueForSync / processSyncQueue /           *)
(* processSyncItem).  A pass walks this.syncQueue with for...of, whose     *)
(* iterator reads the live array: an item pushed during the pass is        *)
(* visited by the same pass.  processSyncItem sends the item through       *)
(* saveToServer / updateOnServer / deleteFromServer, whose catch block     *)
(* queues the failed request again before rethrowing.                      *)
(*                                                                         *)
(* The queue is kept to its last MaxQueue items: when a pass pushes onto a *)
(* full queue the oldest item, already visited, is left out of the model.  *)
(***************************************************************************)
\* everything but the sync queue
NotSync == <<relayVars, dbVars, sessionVars, retryVars, faultVars, undoVars, cacheVars,
             roomVars>>

\* the operations the application sends to the server
SyncOps == {"o1", "o2"}

\* { id, operation, endpoint, data, timestamp, retries: 0, maxRetries: 3 }
SyncItem(o) == [op |-> o, retries |-> 0, mark |-> ""]

\* this.syncQueue.push(syncItem)
Pushed(q, o) == Append(q, SyncItem(o))

\* the last MaxQueue items of q
Window(q) == IF Len(q) > MaxQueue THEN Tail(q) ELSE q

\* requests made from the queue for operation o, counted up to one past the limit
Tried(o) == [tries EXCEPT ![o] = IF @ > itemMaxRetries THEN @ ELSE @ + 1]

\* saveToServer / updateOnServer / deleteFromServer called by the application
\* fails: the catch block queues the operation
RequestFails(o) ==
    /\ o \notin asked
    /\ Len(syncQueue) < MaxQueue
    /\ asked' = asked \cup {o}
    /\ syncQueue' = Pushed(syncQueue, o)
    /\ found' = IF syncInProgress THEN found + 1 ELSE found
    /\ UNCHANGED <<syncInProgress, pos, tries, left, reqParity, completed>>
    /\ UNCHANGED NotSync

\* processSyncQueue() up to its first await; the browser is online
StartPass ==
    /\ ~syncInProgress
    /\ syncQueue # <<>>
    /\ syncInProgress' = TRUE
    /\ pos' = 1
    /\ found' = Len(syncQueue)
    /\ UNCHANGED <<syncQueue, asked, tries, left, reqParity, completed>>
    /\ UNCHANGED NotSync

\* await this.processSyncItem(item) resolves: successful.push(item)
ItemSucceeds ==
    /\ syncInProgress
    /\ pos \in 1..Len(syncQueue)
    /\ syncQueue' = [syncQueue EXCEPT ![pos].mark = "ok"]
    /\ pos' = pos + 1
    /\ tries' = Tried(syncQueue[pos].op)
    /\ reqParity' = 1 - reqParity
    /\ UNCHANGED <<syncInProgress, asked, found, left, completed>>
    /\ UNCHANGED NotSync

\* await this.processSyncItem(item) rejects: the request's catch block has
\* queued the operation again; the loop counts the retry and gives the item
\* up at maxRetries
ItemFails ==
    /\ syncInProgress
    /\ pos \in 1..Len(syncQueue)
    /\ LET item == syncQueue[pos]
           counted == [syncQueue EXCEPT
                          ![pos].retries = @ + 1,
                          ![pos].mark = IF item.retries + 1 >= itemMaxRetries
                                        THEN "failed" ELSE ""]
           pushed == Pushed(counted, item.op)
       IN /\ syncQueue' = Window(pushed)
          /\ pos' = IF Len(pushed) > MaxQueue THEN pos ELSE pos + 1
          /\ tries' = Tried(item.op)
    /\ reqParity' = 1 - reqParity
    /\ UNCHANGED <<syncInProgress, asked, found, left, completed>>
    /\ UNCHANGED NotSync

\* the loop is over: the processed items leave the queue, syncInProgress is
\* reset and sync-complete is emitted
EndPass ==
    /\ syncInProgress
    /\ pos > Len(syncQueue)
    /\ syncQueue' = SelectSeq(syncQueue, LAMBDA item : item.mark = "")
    /\ syncInProgress' = FALSE
    /\ pos' = 0
    /\ left' = Len(syncQueue')
    /\ completed' = TRUE
    /\ UNCHANGED <<asked, tries, found, reqParity>>
    /\ UNCHANGED NotSync

\* the steps of a running pass
PassStep == ItemSucceeds \/ ItemFails \/ EndPass

SyncNext == (\E o \in SyncOps : RequestFails(o)) \/ StartPass \/ PassStep

\* every request settles, so a running pass is always resumed
SyncSpec == Init /\ [][SyncNext]_vars /\ WF_vars(PassStep)

\* C26: a pass always terminates: once processSyncQueue has set
\* syncInProgress, it reaches the end of the queue, resets syncInProgress and
\* emits sync-complete, whatever requests fail.
C26_PassTerminates == syncInProgress ~> ~syncInProgress

\* C27: a failed operation is retried from the queue at most maxRetries
\* times, the queue never holds two entries for one operation, and a pass
\* leaves the queue no longer than it found it (counting what the
\* application queued meanwhile).
C27_BoundedRetriesOneEntry ==
    /\ \A o \in SyncOps : tries[o] <= itemMaxRetries
    /\ \A i, j \in 1..Len(syncQueue) : syncQueue[i].op = syncQueue[j].op => i = j
    /\ left <= found

(***************************************************************************)
(* The board cache (storage.js, BoardManager.loadBoard / setCacheItem /    *)
(* getCacheItem), for one board.  loadBoard is an async function: its body *)
(* runs synchronously up to the first await, and the cached branch has no  *)
(* await before it calls this.loadBoard(boardId) again.  The nested calls  *)
(* pile up on the call stack until the cache entry has expired or the      *)
(* engine's stack is exhausted; StackLimit stands for that engine-defined  *)
(* depth.  Board data is abstracted to the version the server held when it *)
(* was fetched.                                                            *)
(***************************************************************************)
\* everything but the board cache
NotCache == <<relayVars, dbVars, sessionVars, retryVars, faultVars, undoVars, syncVars,
              roomVars>>

\* no entry under `board_full_${boardId}`
NoEntry == [held |-> FALSE, ver |-> 0, fresh |-> FALSE]

\* getCacheItem(key): the entry's data unless it is missing or older than
\* cacheTimeout
Lookup(entry) == entry.held /\ entry.fresh

\* app.init / app.switchBoard: boardManager.loadBoard(boardId)
LoadBoardCall ==
    /\ frames = 0
    /\ loads < MaxLoads
    /\ loads' = loads + 1
    /\ frames' = 1
    /\ lastLoad' = [result |-> "running", fetched |-> FALSE, overflowed |-> FALSE]
    /\ UNCHANGED <<cacheEntry, serverVer, fetching>>
    /\ UNCHANGED NotCache

\* the innermost call finds the entry and calls this.loadBoard(boardId)
\* again before returning
LoadBoardNests ==
    /\ frames \in 1..(StackLimit - 1)
    /\ Lookup(cacheEntry)
    /\ frames' = frames + 1
    /\ UNCHANGED <<cacheEntry, serverVer, fetching, lastLoad, loads>>
    /\ UNCHANGED NotCache

\* the stack is exhausted: the RangeError rejects the innermost calls, the
\* calls above them swallow the rejection and return the cached board
LoadBoardOverflows ==
    /\ frames = StackLimit
    /\ Lookup(cacheEntry)
    /\ frames' = 0
    /\ lastLoad' = [result |-> "cached", fetched |-> FALSE, overflowed |-> TRUE]
    /\ UNCHANGED <<cacheEntry, serverVer, fetching, loads>>
    /\ UNCHANGED NotCache

\* the innermost call finds no usable entry (an expired one is deleted) and
\* awaits this.api.getBoard(boardId); the calls above it return the cached
\* board
LoadBoardFetches ==
    /\ frames >= 1
    /\ ~Lookup(cacheEntry)
    /\ cacheEntry' = NoEntry
    /\ fetching' = fetching + 1
    /\ frames' = 0
    /\ lastLoad' = [result |-> IF frames = 1 THEN "fetching" ELSE "cached",
                    fetched |-> TRUE, overflowed |-> FALSE]
    /\ UNCHANGED <<serverVer, loads>>
    /\ UNCHANGED NotCache

\* api.getBoard resolves, which the event loop takes up when no call is
\* running: this.setCacheItem(`board_full_${boardId}`, board)
GetBoardResolves ==
    /\ frames = 0
    /\ fetching > 0
    /\ fetching' = fetching - 1
    /\ cacheEntry' = [held |-> TRUE, ver |-> serverVer, fresh |-> TRUE]
    /\ UNCHANGED <<serverVer, frames, lastLoad, loads>>
    /\ UNCHANGED NotCache

\* api.getBoard rejects: the call emits board-load-error and rethrows
GetBoardRejects ==
    /\ frames = 0
    /\ fetching > 0
    /\ fetching' = fetching - 1
    /\ UNCHANGED <<cacheEntry, serverVer, frames, lastLoad, loads>>
    /\ UNCHANGED NotCache

\* cacheTimeout (5 minutes) has passed since the entry was stored
EntryExpires ==
    /\ cacheEntry.held
    /\ cacheEntry.fresh
    /\ cacheEntry' = [cacheEntry EXCEPT !.fresh = FALSE]
    /\ UNCHANGED <<serverVer, frames, fetching, lastLoad, loads>>
    /\ UNCHANGED NotCache

\* the board changes on the server
ServerChanges ==
    /\ serverVer < MaxLoads
    /\ serverVer' = serverVer + 1
    /\ UNCHANGED <<cacheEntry, frames, fetching, lastLoad, loads>>
    /\ UNCHANGED NotCache

CacheNext ==
    \/ LoadBoardCall
    \/ LoadBoardNests
    \/ LoadBoardOverflows
    \/ LoadBoardFetches
    \/ GetBoardResolves
    \/ GetBoardRejects
    \/ EntryExpires
    \/ ServerChanges

CacheSpec == Init /\ [][CacheNext]_vars

\* C28: a loadBoard that returned the cached board has started a refresh that
\* fetches the board from the server, without exhausting the call stack.
C28_CachedLoadRefreshes ==
    lastLoad.result = "cached" => (lastLoad.fetched /\ ~lastLoad.overflowed)

(***************************************************************************)
(* Presence across room changes (collaboration.js): the client's room      *)
(* state together with the markers, indicators and timers it holds.        *)
(* leaveBoard and the disconnect handler clear them; the cursor-update and *)
(* typing-start handlers show whatever the socket receives.  The relay     *)
(* writes presence events to this client from the moment it has handled    *)
(* the client's join-board until it has handled its leave-board, and what  *)
(* it wrote is received in order while the transport is up.                *)
(***************************************************************************)
\* everything but the client, its presence display and the relay's view of it
NotRoom == <<relayVars, dbVars, mutationVars, resolveVars, retryVars, faultVars,
             undoVars, syncVars, cacheVars>>

\* presence events the client receives from the relay in one behaviour
MaxRoomArrivals == 2

\* the other member of the room
RoomPeer == "sA"

\* the presence display is left as it is
PresenceKept == UNCHANGED <<typingIndicators, indicatorEls, cursors, cursorEls, timers>>

\* joinBoard(b): leaveBoard() first when the client is in another board
RoomJoin(b) ==
    /\ Step("joinBoard", b)
    /\ DoJoinBoard(b)
    /\ IF connected /\ currentBoard # 0 /\ currentBoard # b THEN DoClearAll ELSE PresenceKept
    /\ feeding' = (feeding \/ connected)
    /\ direct' = TRUE
    /\ UNCHANGED <<link, connected, activeBoard, loading, dropped>>
    /\ UNCHANGED <<nextId, away, lastEvent, arrivals>>
    /\ UNCHANGED NotRoom

\* leaveBoard(): leave-board is emitted, the room forgotten, the display
\* cleared; the relay has not handled the leave yet
RoomLeave ==
    /\ currentBoard # 0
    /\ Step("leaveBoard", currentBoard)
    /\ DoLeaveBoard
    /\ DoClearAll
    /\ direct' = TRUE
    /\ UNCHANGED <<link, connected, activeBoard, loading>>
    /\ UNCHANGED <<nextId, away, lastEvent, arrivals, feeding>>
    /\ UNCHANGED NotRoom

\* disconnect(): leaveBoard(), socket.disconnect(), whose disconnect event
\* runs the disconnect handler
RoomDisconnect ==
    /\ Step("disconnect", currentBoard)
    /\ DoLeaveBoard
    /\ DoClearAll
    /\ link' = "off"
    /\ connected' = FALSE
    /\ feeding' = FALSE
    /\ direct' = TRUE
    /\ UNCHANGED <<activeBoard, loading>>
    /\ UNCHANGED <<nextId, away, lastEvent, arrivals>>
    /\ UNCHANGED NotRoom

\* the socket connects: the connect handler rejoins the board it still holds
RoomConnect ==
    /\ link = "down"
    /\ Step("connect", dropped)
    /\ link' = "up"
    /\ connected' = TRUE
    /\ wire' = wire \o sendBuffer \o RejoinPackets(currentBoard)
    /\ sendBuffer' = <<>>
    /\ wanted' = 0
    /\ dropped' = 0
    /\ feeding' = (currentBoard # 0)
    /\ PresenceKept
    /\ UNCHANGED <<currentBoard, activeBoard, loading, direct>>
    /\ UNCHANGED <<nextId, away, lastEvent, arrivals>>
    /\ UNCHANGED NotRoom

\* the transport drops: the disconnect handler clears the display; what was
\* in flight is lost
RoomDrop ==
    /\ link = "up"
    /\ Step("drop", currentBoard)
    /\ link' = "down"
    /\ connected' = FALSE
    /\ dropped' = currentBoard
    /\ DoClearAll
    /\ feeding' = FALSE
    /\ UNCHANGED <<currentBoard, sendBuffer, wire, activeBoard, loading, wanted, direct>>
    /\ UNCHANGED <<nextId, away, lastEvent, arrivals>>
    /\ UNCHANGED NotRoom

\* the relay has handled the client's leave-board and the client has
\* received everything the relay wrote before that
RelayCaughtUp ==
    /\ feeding
    /\ currentBoard = 0
    /\ feeding' = FALSE
    /\ UNCHANGED <<clientVars, presenceVars>>
    /\ UNCHANGED NotRoom

\* the socket receives a cursor-update the relay wrote
RoomCursorUpdate(u, pt) ==
    link = "up" /\ feeding /\ arrivals < MaxRoomArrivals /\ OnCursorUpdate(u, pt)

\* the socket receives a typing-start the relay wrote
RoomTypingStart(d) ==
    link = "up" /\ feeding /\ arrivals < MaxRoomArrivals /\ OnTypingStart(d, TRUE)

\* a pending expiry timer fires
RoomTimerFires == TypingTimerFires \/ CursorTimerFires

RoomNext ==
    \/ \E b \in Boards : RoomJoin(b)
    \/ RoomLeave
    \/ RoomDisconnect
    \/ RoomConnect
    \/ RoomDrop
    \/ RelayCaughtUp
    \/ \E pt \in CursorPoints : RoomCursorUpdate(RoomPeer, pt)
    \/ \E d \in {t \in TypingData : t.userId = RoomPeer} : RoomTypingStart(d)
    \/ RoomTimerFires

RoomSpec == Init /\ [][RoomNext]_vars

\* C29: whenever the client is not in a room (it holds no board, or its
\* transport is down) it holds no cursor marker, no typing indicator and no
\* pending expiry timer.
C29_NothingHeldOutsideRoom ==
    (currentBoard = 0 \/ ~connected) =>
        /\ cursors = EmptyMap
        /\ cursorEls = EmptyMap
        /\ typingIndicators = EmptyMap
        /\ indicatorEls = {}
        /\ timers = {}

(***************************************************************************)
(* Short histories (app.js, saveState / undo / redo / restoreState and     *)
(* switchBoard): every order of at most MaxOps edits, undos, redos and     *)
(* board switches.  `undone` holds the boards, the active board and both   *)
(* stacks as they were before the latest undo(), and follows what came     *)
(* after it: redo() at once, or saveState() and then redo().               *)
(***************************************************************************)
\* one more operation on the history
HistStep ==
    /\ histOps < MaxOps
    /\ histOps' = histOps + 1
    /\ UNCHANGED NotUndo

\* createCard / duplicateCard / deleteCard
HistEdit == HistStep /\ DoEdit

\* undo()
HistUndo == HistStep /\ DoUndo

\* redo()
HistRedo == HistStep /\ DoRedo

\* switchBoard(b)
HistSwitch(b) == HistStep /\ DoSwitch(b)

HistoryNext ==
    \/ HistEdit
    \/ HistUndo
    \/ HistRedo
    \/ \E b \in Boards : HistSwitch(b)

HistorySpec == Init /\ [][HistoryNext]_vars

C30_WitnessSaved == undone.phase = "idle" /\ Len(undoStack) >= 2

====
